---- MODULE Spec2Model ----
(***************************************************************************)
(* Model of the synchronization engine of thats-it-dev/tasks:              *)
(*   SyncEngine (sync/engine.ts), RetryQueue (sync/retryQueue.ts),         *)
(*   OperationLog (sync/operationLog.ts), the Dexie change-tracking hooks  *)
(*   (sync/hooks.ts), the task operations (lib/taskOperations.ts) and the  *)
(*   enable/disable entry points of the sync store (store/syncStore.ts).   *)
(*                                                                         *)
(* JavaScript is single threaded: every action below is one run-to-        *)
(* completion turn of the event loop (a call, a timer firing, a network    *)
(* response or a database completion together with the microtasks that     *)
(* follow it).  Suspension points are the awaits on the network and on     *)
(* the database.  What the engine reads from its environment at a given    *)
(* moment (navigator.onLine, getToken(), the server's answers) is an input *)
(* of the action that reads it.                                            *)
(***************************************************************************)
EXTENDS Integers, FiniteSets, Sequences, TLC

\* ---------------------------------------------------------------- bounds
MaxClock   == 2      \* Date.now() takes the values 1..MaxClock
MaxCycles  == 2      \* performSync() invocations in flight at once
MaxChanges == 1      \* changes in one pull response
MaxRemote  == 1      \* remote changes delivered per run
MaxToken   == 2      \* sync tokens the server issues: 1..MaxToken
MaxTransient == 4   \* requests that fail in a row before one is answered
MaxEdits   == 2      \* local writes (add/toggle/delete) per run
MaxEngineEdits == 1  \* local writes per run where the table is incidental
MaxFailures == 1     \* failures on record where the retry queue is incidental

\* ------------------------------------------------------ program constants
MAX_RETRIES == 5

Ids      == {"A", "B"}                 \* entity ids of the tasks table
NoRow    == [absent |-> TRUE]          \* table.get(id) === undefined
NoDate   == 0                          \* an undefined / null date
NoToken  == 0                          \* lastSyncToken absent / syncToken null
NoOp     == [type |-> "none"]          \* no operation-log entry stored
Times    == 1..MaxClock
CycleIds == 1..MaxCycles

VARIABLES
  rows,               \* db.tasks : id -> row | NoRow
  now,                \* Date.now()
  cursor,             \* db.syncMeta 'lastSyncToken' (NoToken = absent)
  srvToken,           \* latest sync token the server has issued
  alive,              \* the page (process) is loaded
  api,                \* SyncEngine.api !== null
  syncInterval,       \* SyncEngine.syncInterval !== null
  status,             \* SyncEngine.status
  settled,            \* how the last performSync() settled, the event it emitted
  currentSyncPromise, \* SyncEngine.currentSyncPromise: 0 or the cycle it holds
  cycles,             \* the performSync() invocations
  ffs,                \* position of the forceFullSync() call
  retryState,         \* RetryQueue.state: 0 = null, else attemptCount
  retryStored,        \* localStorage 'tasks_sync_retry_state'
  retryTimer,         \* RetryQueue.timer !== null
  retryNext,          \* RetryQueue.state.nextAttempt (0 when state is null)
  retryStoredNext,    \* nextAttempt of the persisted retry state
  retryDelay,         \* the delay the armed retry timer was set with
  journal,            \* localStorage 'tasks_sync_operation_log'
  console,            \* messages logged since the page loaded
  nEdits,             \* local writes so far
  nRemote             \* remote changes delivered so far

vars == << rows, now, cursor, srvToken, alive, api, syncInterval, status, settled,
           currentSyncPromise, cycles, ffs, retryState, retryStored,
           retryTimer, retryNext, retryStoredNext, retryDelay, journal,
           console, nEdits, nRemote >>

retryVars == << retryState, retryStored, retryTimer, retryNext,
               retryStoredNext, retryDelay, console >>

NoChange == [operation |-> "none"]
NoCycle == [pc |-> "none", origin |-> "none", batch |-> {}, deletes |-> {},
            sent |-> << >>, pushed |-> 0,
            tok |-> NoToken, left |-> 0, last |-> NoChange, pulled |-> 0]
NoFfs   == [pc |-> "none", c |-> 0]

InFlight(c) == cycles[c].pc # "none"
FreeSlots   == {c \in CycleIds : cycles[c].pc = "none"}

\* ------------------------------------------------------------ sync/hooks.ts
\* Object spread / Dexie modification: the fields of mods override those of r.
Merge(r, mods) ==
  [f \in DOMAIN r \cup DOMAIN mods |->
     IF f \in DOMAIN mods THEN mods[f] ELSE r[f]]

\* An updating hook that returns nothing.
HookUpdating_Nothing(mods, t) == << >>

\* table.hook('updating'): the additional modifications the hook returns.
HookUpdating(mods, t) ==
  IF "syncStatus" \in DOMAIN mods /\ mods.syncStatus = "synced"
  THEN << >>
  ELSE [syncStatus     |-> IF "syncStatus" \in DOMAIN mods
                           THEN mods.syncStatus ELSE "pending",
        localUpdatedAt |-> t]

\* table.hook('creating'): fills the sync fields the object lacks.
HookCreating(obj, t) ==
  [f \in DOMAIN obj \cup {"syncStatus", "localUpdatedAt"} |->
     IF f = "syncStatus" /\ f \notin DOMAIN obj THEN "pending"
     ELSE IF f = "localUpdatedAt" /\ f \notin DOMAIN obj THEN t
     ELSE obj[f]]

\* table.update(id, mods) / collection.modify(mods) on an existing row.
TableUpdate(r, mods, t) == Merge(Merge(r, mods), HookUpdating(mods, t))

\* table.add(obj) / table.put(obj) of a row that does not exist yet.
TablePut(obj, t) == Merge([deletedAt |-> NoDate], HookCreating(obj, t))

Pending(rs) == {i \in Ids : rs[i] # NoRow /\ rs[i].syncStatus = "pending"}

\* pushChanges(): the operation of the change built for a pending row.
ChangeOperation(r) == IF r.deletedAt # NoDate THEN "delete" ELSE "upsert"

\* ------------------------------------------------------ sync/retryQueue.ts
\* The retry queue as a value: q.state (0 = null, else attemptCount) and
\* q.next (nextAttempt), q.stored and q.storedNext (the persisted copy),
\* q.timer (a timer is armed) and q.delay (the delay it was armed with),
\* q.log (what it has written to the console), q.clock (Date.now()).
BACKOFF_MS == << 1000, 5000, 15000, 60000, 300000 >>

\* Date.now() in milliseconds at clock reading t: one tick of the clock is as
\* long as the second backoff step, so that a restart one tick after a
\* failure comes after, at, or before nextAttempt.
DateNow(t) == t * BACKOFF_MS[2]

RetryQ == [state |-> retryState, stored |-> retryStored, timer |-> retryTimer,
           next |-> retryNext, storedNext |-> retryStoredNext,
           delay |-> retryDelay, log |-> console, clock |-> DateNow(now)]

Min(a, b) == IF a <= b THEN a ELSE b
Max(a, b) == IF a >= b THEN a ELSE b

scheduleRetry(q) ==
  IF q.state = 0 \/ q.timer THEN q
  ELSE IF q.state >= MAX_RETRIES THEN q
  ELSE [q EXCEPT !.timer = TRUE, !.delay = Max(0, q.next - q.clock)]

\* recordFailure() without the cap on the attempt number.
recordFailure_Uncapped(q) ==
  LET attempt == IF q.state # 0 THEN q.state + 1 ELSE 1
      backoff == BACKOFF_MS[Min(attempt - 1, Len(BACKOFF_MS) - 1) + 1]
  IN [q EXCEPT !.state = attempt, !.stored = attempt,
               !.next = q.clock + backoff, !.storedNext = q.clock + backoff,
               !.timer = (q.timer \/ attempt < MAX_RETRIES)]

recordFailure(q) ==
  LET attempt == IF q.state # 0 THEN q.state + 1 ELSE 1
      backoff == BACKOFF_MS[Min(attempt - 1, Len(BACKOFF_MS) - 1) + 1]
  IN
  IF attempt > MAX_RETRIES
  THEN [q EXCEPT !.log = @ \cup {"Max sync retries exceeded"}]
  ELSE scheduleRetry([q EXCEPT !.state = attempt, !.stored = attempt,
                               !.next = q.clock + backoff,
                               !.storedNext = q.clock + backoff])

recordSuccess_KeepsTimer(q) ==
  [q EXCEPT !.state = 0, !.stored = 0, !.next = 0, !.storedNext = 0]

recordSuccess(q) ==
  [q EXCEPT !.state = 0, !.stored = 0, !.next = 0, !.storedNext = 0,
            !.timer = FALSE, !.delay = 0]

\* RetryQueue constructor at time t: loadState() restores the persisted state.
loadState_FreshDelay(stored, storedNext, t) ==
  LET q0 == [state |-> 0, stored |-> stored, timer |-> FALSE, next |-> 0,
             storedNext |-> storedNext, delay |-> 0, log |-> {},
             clock |-> DateNow(t)]
  IN IF stored # 0
     THEN [q0 EXCEPT !.state = stored, !.next = storedNext,
                     !.timer = stored < MAX_RETRIES,
                     !.delay = IF stored < MAX_RETRIES
                               THEN BACKOFF_MS[Min(stored, Len(BACKOFF_MS))]
                               ELSE 0]
     ELSE q0

loadState(stored, storedNext, t) ==
  LET q0 == [state |-> 0, stored |-> stored, timer |-> FALSE, next |-> 0,
             storedNext |-> storedNext, delay |-> 0, log |-> {},
             clock |-> DateNow(t)]
  IN IF stored # 0
     THEN scheduleRetry([q0 EXCEPT !.state = stored, !.next = storedNext])
     ELSE q0

SetRetry(q) ==
  /\ retryState'  = q.state
  /\ retryStored' = q.stored
  /\ retryTimer'  = q.timer
  /\ retryNext'   = q.next
  /\ retryStoredNext' = q.storedNext
  /\ retryDelay'  = q.delay
  /\ console'     = q.log

\* ---------------------------------------------------- sync/operationLog.ts
\* OperationLog.start(type, entityIds): the entry written to localStorage.
OperationLogStart(type, entityIds) == [type |-> type, entityIds |-> entityIds]

\* OperationLog.complete(): the entry is removed.
OperationLogComplete == NoOp

\* checkForOrphanedOperation() that reports the entry and keeps it.
checkForOrphanedOperation_Keep(stored) == stored

\* checkForOrphanedOperation(): the entry it leaves in localStorage.
checkForOrphanedOperation(stored) == NoOp

\* checkForOrphanedOperation(): what it writes to the console.
OrphanWarning(stored) ==
  IF stored # NoOp THEN {"Found orphaned sync operation"} ELSE {}

\* ------------------------------------------------------- sync/engine.ts
AuthKinds == {"noToken", "expired"}   \* 'Not authenticated', 'Authentication expired'

\* A catch block that leaves the status as it is while the cycle runs.
FailStatus_StaysSyncing(kind, online) == "syncing"

\* performSync() catch block: the status set for an error of the given kind;
\* online is navigator.onLine at that moment.
FailStatus(kind, online) ==
  IF kind \in AuthKinds THEN "error"
  ELSE IF ~online THEN "offline"
  ELSE "error"

\* performSync(): the event it emits to the subscribers when it settles.
Notify(ok, kind) ==
  IF ok THEN "syncComplete"
  ELSE IF kind \in AuthKinds THEN "authError"
  ELSE "none"

\* performSync(): how its promise settles, the error it rejects with, and
\* the event emitted.
Outcome(ok, kind) ==
  [promise |-> IF ok THEN "resolved" ELSE "rejected",
   error   |-> IF ok THEN "none" ELSE kind,
   event   |-> Notify(ok, kind)]

NoOutcome == [promise |-> "none", error |-> "none", event |-> "none"]

\* The turn in which performSync() of cycle c settles.  ok: it resolved;
\* cur: the cursor as the cycle leaves it; q: the retry queue before; f: the
\* forceFullSync() call before.  The caller that started the cycle runs its
\* finally block (the slot is cleared; a retry callback would call
\* recordSuccess() once more), and a forceFullSync() awaiting the cycle
\* resumes: offline check, then it issues the deletion of the cursor.
Settle(c, ok, kind, cur, q, f, online) ==
  LET st1    == IF ok THEN "idle" ELSE FailStatus(kind, online)
      resume == f.pc = "await" /\ f.c = c
  IN
  /\ SetRetry(IF ok THEN recordSuccess(q) ELSE recordFailure(q))
  /\ settled' = Outcome(ok, kind)
  /\ currentSyncPromise' = 0
  /\ IF resume
     THEN IF online
          THEN /\ status' = st1
               /\ cursor' = NoToken
               /\ ffs'    = [pc |-> "deleting", c |-> 0]
          ELSE /\ status' = "offline"
               /\ cursor' = cur
               /\ ffs'    = NoFfs
     ELSE /\ status' = st1
          /\ cursor' = cur
          /\ ffs'    = f

\* performSync() up to its first network await: pushChanges() scans the
\* pending rows, journals the batch and sends the push request.
\* origin: "syncNow" or "force"; hasToken: getToken() returns a token.
StartCycle(origin, q, f, apiV, hasToken, online) ==
  LET batch == Pending(rows) IN
  \E c \in FreeSlots :
    /\ \A d \in FreeSlots : c <= d
    /\ IF ~apiV
       THEN /\ Settle(c, FALSE, "config", cursor, q, f, online)
            /\ UNCHANGED << cycles, journal >>
       ELSE IF batch = {}
       THEN /\ cycles' = [cycles EXCEPT ![c] =
                            [NoCycle EXCEPT !.pc = "pull0", !.origin = origin]]
            /\ status' = "syncing"
            /\ settled' = settled
            /\ currentSyncPromise' = c
            /\ SetRetry(q)
            /\ ffs' = f
            /\ UNCHANGED << journal, cursor >>
       ELSE IF ~hasToken
       THEN /\ journal' = OperationLogStart("push", batch)
            /\ Settle(c, FALSE, "noToken", cursor, q, f, online)
            /\ UNCHANGED cycles
       ELSE /\ journal' = OperationLogStart("push", batch)
            /\ cycles' = [cycles EXCEPT ![c] =
                            [NoCycle EXCEPT !.pc = "push", !.origin = origin,
                              !.batch = batch,
                              !.deletes = {i \in batch :
                                             ChangeOperation(rows[i]) = "delete"},
                              !.sent = [i \in batch |->
                                          rows[i].localUpdatedAt]]]
            /\ status' = "syncing"
            /\ settled' = settled
            /\ currentSyncPromise' = c
            /\ SetRetry(q)
            /\ ffs' = f
            /\ UNCHANGED cursor

\* syncNow() without the check of navigator.onLine.
SyncNow_NoOfflineCheck(isRetry, q, apiV, hasToken, online) ==
  IF ~apiV \/ currentSyncPromise # 0
  THEN /\ SetRetry(q)
       /\ UNCHANGED << status, settled, currentSyncPromise, cycles, journal, ffs,
                       cursor >>
  ELSE StartCycle("syncNow", q, ffs, apiV, hasToken, online)

\* syncNow().  Sets status, currentSyncPromise, cycles, journal, the retry
\* queue, ffs and cursor.  isRetry: the caller is the retry callback, which
\* calls recordSuccess() when the promise it awaits resolves.
SyncNow(isRetry, q, apiV, hasToken, online) ==
  IF ~apiV
  THEN \* throws 'SyncEngine not initialized'
       /\ SetRetry(q)
       /\ UNCHANGED << status, settled, currentSyncPromise, cycles, journal, ffs,
                       cursor >>
  ELSE IF currentSyncPromise # 0
  THEN \* returns the promise in flight
       /\ SetRetry(q)
       /\ UNCHANGED << status, settled, currentSyncPromise, cycles, journal, ffs,
                       cursor >>
  ELSE IF ~online
  THEN \* zero result
       /\ status' = "offline"
       /\ SetRetry(IF isRetry THEN recordSuccess(q) ELSE q)
       /\ UNCHANGED << settled, currentSyncPromise, cycles, journal, ffs, cursor >>
  ELSE StartCycle("syncNow", q, ffs, apiV, hasToken, online)

\* ------------------------------------------------------------------ Init
\* The page has loaded: `new SyncEngine()` ran at module load and App called
\* configure(); nothing is stored yet.
Init ==
  /\ rows = [i \in Ids |-> NoRow]
  /\ now = 1
  /\ cursor = NoToken
  /\ srvToken = NoToken
  /\ alive = TRUE
  /\ api = FALSE
  /\ syncInterval = FALSE
  /\ status = "idle"
  /\ settled = NoOutcome
  /\ currentSyncPromise = 0
  /\ cycles = [c \in CycleIds |-> NoCycle]
  /\ ffs = NoFfs
  /\ retryState = 0
  /\ retryStored = 0
  /\ retryTimer = FALSE
  /\ retryNext = 0
  /\ retryStoredNext = 0
  /\ retryDelay = 0
  /\ journal = NoOp
  /\ console = {}
  /\ nEdits = 0
  /\ nRemote = 0

engineVars == << status, settled, currentSyncPromise, cycles, ffs, retryVars,
                 journal >>

\* Date.now() as an operation reads it: the clock may have advanced.
Clock(t) == t \in {now, now + 1} /\ t <= MaxClock

\* ------------------------------------------------- lib/taskOperations.ts
LocalFrame ==
  /\ nEdits < MaxEdits
  /\ alive
  /\ nEdits' = nEdits + 1
  /\ UNCHANGED << cursor, srvToken, alive, api, syncInterval, engineVars, nRemote >>

\* addTask(): db.tasks.add(task) with a fresh id.
addTask(i, t) ==
  /\ Clock(t)
  /\ now' = t
  /\ rows[i] = NoRow
  /\ rows' = [rows EXCEPT ![i] =
       TablePut([data |-> "local", syncStatus |-> "pending",
                 localUpdatedAt |-> t], t)]
  /\ LocalFrame

\* toggleTask() / updateTask(): throws when the task does not exist.
updateTask(i, t) ==
  /\ Clock(t)
  /\ now' = t
  /\ rows[i] # NoRow
  /\ rows' = [rows EXCEPT ![i] =
       TableUpdate(rows[i], [data |-> "local", syncStatus |-> "pending",
                             localUpdatedAt |-> t], t)]
  /\ LocalFrame

\* deleteTask(): soft delete; table.update() of a missing key changes nothing.
deleteTask_Hard(i, t) ==
  /\ Clock(t)
  /\ now' = t
  /\ rows' = [rows EXCEPT ![i] = NoRow]
  /\ LocalFrame

deleteTask(i, t) ==
  /\ Clock(t)
  /\ now' = t
  /\ rows' = IF rows[i] = NoRow THEN rows
             ELSE [rows EXCEPT ![i] =
               TableUpdate(rows[i], [deletedAt |-> t, syncStatus |-> "pending",
                                     localUpdatedAt |-> t], t)]
  /\ LocalFrame

\* The modifications a write to the table may carry: data fields, with or
\* without a status of its own.
Modifications ==
  { [data |-> "written"] } \cup
  [data : {"written"}, syncStatus : {"pending", "conflict", "synced"}] \cup
  [syncStatus : {"pending", "conflict", "synced"}]

\* Any write to a row of the tasks table, db.tasks.update(i, mods), by code
\* that bypasses the task operations.
tableUpdate(i, mods, t) ==
  /\ Clock(t)
  /\ now' = t
  /\ rows[i] # NoRow
  /\ rows' = [rows EXCEPT ![i] = TableUpdate(rows[i], mods, t)]
  /\ alive
  /\ UNCHANGED << cursor, srvToken, alive, api, syncInterval, engineVars,
                  nEdits, nRemote >>

\* --------------------------------------------------- store/syncStore.ts
\* enable(): stores the tokens, init() and start(): stop() when already
\* started, one immediate syncNow(), then the periodic timer.
Enable(online) ==
  /\ alive
  /\ api' = TRUE
  /\ syncInterval' = TRUE
  /\ SyncNow(FALSE, RetryQ, TRUE, TRUE, online)
  /\ UNCHANGED << rows, now, srvToken, alive, nEdits, nRemote >>

\* SyncEngine.stop()
Stop ==
  /\ alive
  /\ syncInterval
  /\ syncInterval' = FALSE
  /\ UNCHANGED << rows, now, cursor, srvToken, alive, api, engineVars,
                  nEdits, nRemote >>

\* disable(): stop(), the tokens are removed and the cursor is deleted.
Disable ==
  /\ alive
  /\ api
  /\ syncInterval' = FALSE
  /\ cursor' = NoToken
  /\ UNCHANGED << rows, now, srvToken, alive, api, engineVars, nEdits, nRemote >>

\* ------------------------------------------------ the triggers of syncNow
SyncFrame == UNCHANGED << rows, now, srvToken, alive, api, syncInterval,
                          nEdits, nRemote >>

\* A manual syncNow() (sync button, window focus, auth-error handler).
SyncNowCall(hasToken, online) ==
  /\ alive
  /\ SyncNow(FALSE, RetryQ, api, hasToken, online)
  /\ SyncFrame

\* The setInterval callback of start().
IntervalFire(hasToken, online) ==
  /\ alive
  /\ syncInterval
  /\ SyncNow(FALSE, RetryQ, api, hasToken, online)
  /\ SyncFrame

\* The setTimeout callback of RetryQueue.scheduleRetry().
RetryFire(hasToken, online) ==
  /\ alive
  /\ retryTimer
  /\ SyncNow(TRUE, [RetryQ EXCEPT !.timer = FALSE, !.delay = 0], api, hasToken,
             online)
  /\ SyncFrame

\* ------------------------------------------------------- forceFullSync()
\* The call: awaits the cycle in flight, or else checks the network and
\* issues the deletion of the cursor.
FfsCall(online) ==
  /\ alive
  /\ ffs.pc = "none"
  /\ IF currentSyncPromise # 0
     THEN /\ ffs' = [pc |-> "await", c |-> currentSyncPromise]
          /\ UNCHANGED << status, cursor >>
     ELSE IF ~online
     THEN /\ status' = "offline"
          /\ UNCHANGED << ffs, cursor >>
     ELSE /\ cursor' = NoToken
          /\ ffs' = [pc |-> "deleting", c |-> 0]
          /\ UNCHANGED status
  /\ UNCHANGED << rows, now, srvToken, alive, api, syncInterval, settled,
                  currentSyncPromise, cycles, retryVars, journal,
                  nEdits, nRemote >>

\* The deletion has completed: setStatus('syncing') and performSync().
FfsStart(hasToken, online) ==
  /\ alive
  /\ ffs.pc = "deleting"
  /\ StartCycle("force", RetryQ, NoFfs, api, hasToken, online)
  /\ SyncFrame

\* ------------------------------------------------- pushChanges(), part 2
\* The tokens the server may put in its next response: none, or one that is
\* not earlier than any token it issued before.
ServerTokens == {NoToken} \cup {t \in 1..MaxToken : t >= srvToken /\ t <= srvToken + 1}

CycleFrame == UNCHANGED << alive, api, syncInterval, nEdits >>

\* The push response applied without filtering `applied` by the batch sent.
ApplyPushResponse_Unfiltered(rs, batch, applied, conflicts, t) ==
  LET rs1 == [i \in Ids |->
                IF i \in applied /\ rs[i] # NoRow
                THEN TableUpdate(rs[i], [syncStatus |-> "synced"], t)
                ELSE rs[i]]
  IN [i \in Ids |->
        IF i \in conflicts /\ rs1[i] # NoRow
        THEN TableUpdate(rs1[i], [syncStatus |-> "conflict"], t)
        ELSE rs1[i]]

\* The rows after the push response {applied, conflicts} for the batch sent.
ApplyPushResponse_Nothing(rs, batch, applied, conflicts, t) == rs

ApplyPushResponse(rs, batch, applied, conflicts, t) ==
  LET appliedIds == {i \in applied : i \in batch}
      rs1 == [i \in Ids |->
                IF i \in appliedIds /\ rs[i] # NoRow
                THEN TableUpdate(rs[i], [syncStatus |-> "synced"], t)
                ELSE rs[i]]
  IN [i \in Ids |->
        IF i \in conflicts /\ rs1[i] # NoRow
        THEN TableUpdate(rs1[i], [syncStatus |-> "conflict"], t)
        ELSE rs1[i]]

\* pushChanges() storing the syncToken of the push response.
CursorAfterPush_Stored(cur, syncToken) == syncToken

\* The cursor pushChanges() leaves: the response's syncToken is not used.
CursorAfterPush(cur, syncToken) == cur

\* The push request of cycle c is answered with 2xx:
\* {applied, conflicts, syncToken}.
PushResponse(c, applied, conflicts, syncToken, t) ==
  /\ alive
  /\ cycles[c].pc = "push"
  /\ Clock(t)
  /\ now' = t
  /\ syncToken \in ServerTokens \ {NoToken}
  /\ srvToken' = syncToken
  /\ rows' = ApplyPushResponse(rows, cycles[c].batch, applied, conflicts, t)
  /\ cursor' = CursorAfterPush(cursor, syncToken)
  /\ journal' = OperationLogComplete
  /\ cycles' = [cycles EXCEPT ![c].pc = "pull0", ![c].batch = {},
                              ![c].deletes = {}, ![c].sent = << >>,
                              ![c].pushed = Cardinality(applied)]
  /\ UNCHANGED << status, settled, currentSyncPromise, ffs, retryVars, nRemote >>
  /\ CycleFrame

\* A failed push request whose error is swallowed: the cycle goes on to pull.
PushFail_Continues(c, kind, online) ==
  /\ alive
  /\ cycles[c].pc = "push"
  /\ cycles' = [cycles EXCEPT ![c].pc = "pull0", ![c].batch = {},
                              ![c].deletes = {}]
  /\ UNCHANGED << rows, now, cursor, srvToken, status, settled,
                  currentSyncPromise, ffs, retryVars, journal, nRemote >>
  /\ CycleFrame

\* The push request of cycle c fails: fetch rejects, non-2xx or 401.
PushFail(c, kind, online) ==
  /\ alive
  /\ cycles[c].pc = "push"
  /\ Settle(c, FALSE, kind, cursor, RetryQ, ffs, online)
  /\ cycles' = [cycles EXCEPT ![c] = NoCycle]
  /\ UNCHANGED << rows, now, srvToken, journal, nRemote >>
  /\ CycleFrame

\* ---------------------------------------------------------- pullChanges()
\* The cursor is read and the pull request is sent; the server handles it.
PullSend(c, tok, hasToken, online) ==
  /\ alive
  /\ cycles[c].pc = "pull0"
  /\ IF ~hasToken
     THEN /\ tok = NoToken
          /\ Settle(c, FALSE, "noToken", cursor, RetryQ, ffs, online)
          /\ cycles' = [cycles EXCEPT ![c] = NoCycle]
          /\ UNCHANGED srvToken
     ELSE /\ tok \in ServerTokens
          /\ srvToken' = IF tok = NoToken THEN srvToken ELSE tok
          /\ cycles' = [cycles EXCEPT ![c].pc = "pull", ![c].tok = tok]
          /\ UNCHANGED << cursor, status, settled, currentSyncPromise, ffs,
                          retryVars >>
  /\ UNCHANGED << rows, now, journal, nRemote >>
  /\ CycleFrame

\* The pull request of cycle c is answered with 2xx and n changes.
PullResponse(c, n) ==
  /\ alive
  /\ cycles[c].pc = "pull"
  /\ nRemote + n <= MaxRemote
  /\ nRemote' = nRemote + n
  /\ cycles' = [cycles EXCEPT ![c].pc = "apply", ![c].left = n]
  /\ UNCHANGED << rows, now, cursor, srvToken, status, settled,
                  currentSyncPromise, ffs,
                  retryVars, journal >>
  /\ CycleFrame

PullFail(c, kind, online) ==
  /\ alive
  /\ cycles[c].pc = "pull"
  /\ Settle(c, FALSE, kind, cursor, RetryQ, ffs, online)
  /\ cycles' = [cycles EXCEPT ![c] = NoCycle]
  /\ UNCHANGED << rows, now, srvToken, journal, nRemote >>
  /\ CycleFrame

\* The remote changes a pull response may carry.
\* Applying a pulled change throws (a failed table write, a change that
\* cannot be deserialized): the cycle fails with changes left unapplied.
PullApplyFail(c, kind, online) ==
  /\ alive
  /\ cycles[c].pc = "apply"
  /\ cycles[c].left > 0
  /\ Settle(c, FALSE, kind, cursor, RetryQ, ffs, online)
  /\ cycles' = [cycles EXCEPT ![c] = NoCycle]
  /\ UNCHANGED << rows, now, srvToken, journal, nRemote >>
  /\ CycleFrame

RemoteChanges ==
  [operation : {"upsert"}, id : Ids, updatedAt : Times] \cup
  [operation : {"delete"}, id : Ids, deletedAt : {NoDate} \cup Times]

\* The loop body without the check for a local pending change.
ApplyChange_NoPendingCheck(rs, ch, t) ==
  LET existing == rs[ch.id] IN
  IF ch.operation = "delete"
  THEN IF existing # NoRow
       THEN << [rs EXCEPT ![ch.id] =
                  TableUpdate(existing,
                    [deletedAt  |-> IF ch.deletedAt # NoDate THEN ch.deletedAt ELSE t,
                     syncStatus |-> "synced"], t)], 1 >>
       ELSE << rs, 0 >>
  ELSE IF existing # NoRow
       THEN << [rs EXCEPT ![ch.id] =
                  TableUpdate(existing,
                    [data |-> "remote", syncStatus |-> "synced",
                     localUpdatedAt |-> ch.updatedAt], t)], 1 >>
       ELSE << [rs EXCEPT ![ch.id] =
                  TablePut([data |-> "remote", syncStatus |-> "synced",
                            localUpdatedAt |-> ch.updatedAt], t)], 1 >>

\* One iteration of the loop over the changes of the response:
\* << rows after, 1 if the change is counted in `pulled` else 0 >>.
ApplyChange(rs, ch, t) ==
  LET existing == rs[ch.id] IN
  IF ch.operation = "delete"
  THEN IF existing # NoRow
       THEN << [rs EXCEPT ![ch.id] =
                  TableUpdate(existing,
                    [deletedAt  |-> IF ch.deletedAt # NoDate THEN ch.deletedAt ELSE t,
                     syncStatus |-> "synced"], t)], 1 >>
       ELSE << rs, 0 >>
  ELSE IF existing # NoRow /\ existing.syncStatus = "pending"
       THEN << rs, 0 >>
       ELSE IF existing # NoRow
            THEN << [rs EXCEPT ![ch.id] =
                       TableUpdate(existing,
                         [data |-> "remote", syncStatus |-> "synced",
                          localUpdatedAt |-> ch.updatedAt], t)], 1 >>
            ELSE << [rs EXCEPT ![ch.id] =
                       TablePut([data |-> "remote", syncStatus |-> "synced",
                                 localUpdatedAt |-> ch.updatedAt], t)], 1 >>

\* Cycle c applies the next change of its pull response.
PullApply(c, ch, t) ==
  /\ alive
  /\ cycles[c].pc = "apply"
  /\ cycles[c].left > 0
  /\ Clock(t)
  /\ now' = t
  /\ LET res == ApplyChange(rows, ch, t) IN
       /\ rows' = res[1]
       /\ cycles' = [cycles EXCEPT ![c].left = @ - 1, ![c].last = [operation |-> ch.operation, id |-> ch.id,
                                               updatedAt |-> IF ch.operation = "upsert"
                                                             THEN ch.updatedAt ELSE NoDate,
                                               applied |-> res[2] = 1],
                                   ![c].pulled = @ + res[2]]
  /\ UNCHANGED << cursor, srvToken, status, settled, currentSyncPromise, ffs,
                  retryVars,
                  journal, nRemote >>
  /\ CycleFrame

\* The cursor pullChanges() leaves: the response's syncToken when it has one.
CursorAfterPull_Always(cur, tok) == tok

CursorAfterPull(cur, tok) == IF tok # NoToken THEN tok ELSE cur

\* All changes are applied: the cursor is written and performSync() resolves.
PullFinish(c, online) ==
  /\ alive
  /\ cycles[c].pc = "apply"
  /\ cycles[c].left = 0
  /\ Settle(c, TRUE, "none", CursorAfterPull(cursor, cycles[c].tok), RetryQ,
            ffs, online)
  /\ cycles' = [cycles EXCEPT ![c] = NoCycle]
  /\ UNCHANGED << rows, now, srvToken, journal, nRemote >>
  /\ CycleFrame

\* ------------------------------------------------------------ page reload
\* The page is closed or crashes: only what is persisted survives.
Crash ==
  /\ alive
  /\ alive' = FALSE
  /\ api' = FALSE
  /\ syncInterval' = FALSE
  /\ status' = "idle"
  /\ settled' = NoOutcome
  /\ currentSyncPromise' = 0
  /\ cycles' = [c \in CycleIds |-> NoCycle]
  /\ ffs' = NoFfs
  /\ retryState' = 0
  /\ retryTimer' = FALSE
  /\ retryNext' = 0
  /\ retryDelay' = 0
  /\ console' = {}
  /\ UNCHANGED << rows, now, cursor, srvToken, retryStored, retryStoredNext,
                  journal, nEdits, nRemote >>

\* handleLogout(true) of the command palette: the tasks table and syncMeta
\* are cleared, sync is disabled and the page reloads.
handleLogout ==
  /\ alive
  /\ api
  /\ rows' = [i \in Ids |-> NoRow]
  /\ cursor' = NoToken
  /\ alive' = FALSE
  /\ api' = FALSE
  /\ syncInterval' = FALSE
  /\ status' = "idle"
  /\ settled' = NoOutcome
  /\ currentSyncPromise' = 0
  /\ cycles' = [c \in CycleIds |-> NoCycle]
  /\ ffs' = NoFfs
  /\ retryState' = 0
  /\ retryTimer' = FALSE
  /\ retryNext' = 0
  /\ retryDelay' = 0
  /\ console' = {}
  /\ UNCHANGED << now, srvToken, retryStored, retryStoredNext, journal,
                  nEdits, nRemote >>

\* Module load: new SyncEngine() constructs the RetryQueue (loadState) and
\* the OperationLog (checkForOrphanedOperation); App calls configure().
Construct(t) ==
  /\ ~alive
  /\ Clock(t)
  /\ now' = t
  /\ alive' = TRUE
  /\ SetRetry([loadState(retryStored, retryStoredNext, t)
                 EXCEPT !.log = OrphanWarning(journal)])
  /\ journal' = checkForOrphanedOperation(journal)
  /\ UNCHANGED << rows, cursor, srvToken, api, syncInterval, status, settled,
                  currentSyncPromise, cycles, ffs, nEdits, nRemote >>

\* ------------------------------------------------------------------ Next
FailKinds == {"network", "expired"}

\* The row the engine scenarios write.
OneId == CHOOSE i \in Ids : TRUE

\* A failure may be recorded: fewer than cap failures are on record.
MayFail(cap) == retryState < cap /\ retryStored < cap

\* The whole engine (every trigger, forceFullSync, overlapping cycles) over a
\* table that sees few local writes, with a server that applies every change
\* pushed and has no remote changes to deliver.
Next ==
  \/ nEdits < MaxEngineEdits /\ addTask(OneId, now)
  \/ \E online \in BOOLEAN : Enable(online)
  \/ Stop
  \/ Disable
  \/ \E hasToken \in BOOLEAN : \E online \in BOOLEAN :
       (hasToken \/ MayFail(MaxFailures)) /\ SyncNowCall(hasToken, online)
  \/ \E hasToken \in BOOLEAN : \E online \in BOOLEAN :
       (hasToken \/ MayFail(MaxFailures)) /\ IntervalFire(hasToken, online)
  \/ \E hasToken \in BOOLEAN : \E online \in BOOLEAN :
       (hasToken \/ MayFail(MaxFailures)) /\ RetryFire(hasToken, online)
  \/ \E online \in BOOLEAN : FfsCall(online)
  \/ \E hasToken \in BOOLEAN : \E online \in BOOLEAN :
       ((api /\ hasToken) \/ MayFail(MaxFailures)) /\ FfsStart(hasToken, online)
  \/ \E c \in CycleIds : \E syncToken \in 1..MaxToken :
       PushResponse(c, cycles[c].batch, {}, syncToken, now)
  \/ \E c \in CycleIds : \E kind \in FailKinds : \E online \in BOOLEAN :
       MayFail(MaxFailures) /\ PushFail(c, kind, online)
  \/ \E c \in CycleIds : \E tok \in 0..MaxToken : \E hasToken \in BOOLEAN :
       \E online \in BOOLEAN :
         (hasToken \/ MayFail(MaxFailures)) /\ PullSend(c, tok, hasToken, online)
  \/ \E c \in CycleIds : PullResponse(c, 0)
  \/ \E c \in CycleIds : \E kind \in FailKinds : \E online \in BOOLEAN :
       MayFail(MaxFailures) /\ PullFail(c, kind, online)
  \/ \E c \in CycleIds : \E online \in BOOLEAN : PullFinish(c, online)

Spec == Init /\ [][Next]_vars

\* One cycle at a time over a table with local writes and remote changes.
NextData ==
  \/ \E i \in Ids : \E t \in Times : addTask(i, t)
  \/ \E i \in Ids : \E t \in Times : updateTask(i, t)
  \/ \E i \in Ids : \E t \in Times : deleteTask(i, t)
  \/ Enable(TRUE)
  \/ SyncNowCall(TRUE, TRUE)
  \/ \E c \in CycleIds : \E applied \in SUBSET Ids : \E conflicts \in SUBSET Ids :
       \E syncToken \in 1..MaxToken : \E t \in Times :
         PushResponse(c, applied, conflicts, syncToken, t)
  \/ \E c \in CycleIds : MayFail(MaxFailures) /\ PushFail(c, "network", TRUE)
  \/ \E c \in CycleIds : \E tok \in 0..MaxToken : PullSend(c, tok, TRUE, TRUE)
  \/ \E c \in CycleIds : \E n \in 0..MaxChanges : PullResponse(c, n)
  \/ \E c \in CycleIds : \E ch \in RemoteChanges : \E t \in Times : PullApply(c, ch, t)
  \/ \E c \in CycleIds : MayFail(MaxFailures) /\ PullApplyFail(c, "storage", TRUE)
  \/ \E c \in CycleIds : PullFinish(c, TRUE)
  \/ handleLogout
  \/ \E t \in Times : Construct(t)

SpecData == Init /\ [][NextData]_vars

\* The retry queue through repeated failures and page reloads, one cycle at
\* a time.
NextRetry ==
  \/ nEdits < MaxEngineEdits /\ addTask(OneId, now)
  \/ \E online \in BOOLEAN : Enable(online)
  \/ Stop
  \/ \E hasToken \in BOOLEAN : \E online \in BOOLEAN : SyncNowCall(hasToken, online)
  \/ \E hasToken \in BOOLEAN : \E online \in BOOLEAN : IntervalFire(hasToken, online)
  \/ \E hasToken \in BOOLEAN : \E online \in BOOLEAN : RetryFire(hasToken, online)
  \/ \E c \in CycleIds : \E syncToken \in 1..MaxToken :
       PushResponse(c, cycles[c].batch, {}, syncToken, now)
  \/ \E c \in CycleIds : \E kind \in FailKinds : \E online \in BOOLEAN :
       PushFail(c, kind, online)
  \/ \E c \in CycleIds : \E hasToken \in BOOLEAN : \E online \in BOOLEAN :
       PullSend(c, NoToken, hasToken, online)
  \/ \E c \in CycleIds : PullResponse(c, 0)
  \/ \E c \in CycleIds : \E kind \in FailKinds : \E online \in BOOLEAN :
       PullFail(c, kind, online)
  \/ \E c \in CycleIds : \E online \in BOOLEAN : PullFinish(c, online)
  \/ Crash
  \/ \E t \in Times : Construct(t)

SpecRetry == Init /\ [][NextRetry]_vars

\* The change tracker alone: the task operations and arbitrary writes to the
\* table, with the hooks installed.
NextHooks ==
  \/ \E i \in Ids : \E t \in Times : addTask(i, t)
  \/ \E i \in Ids : \E t \in Times : updateTask(i, t)
  \/ \E i \in Ids : \E t \in Times : deleteTask(i, t)
  \/ \E i \in Ids : \E mods \in Modifications : \E t \in Times :
       tableUpdate(i, mods, t)

SpecHooks == Init /\ [][NextHooks]_vars

\* The engine started and left alone: tasks are added before sync is
\* enabled; then the network stays online, the token stays valid, the server
\* lists every pushed id in applied, and at most MaxTransient requests in a
\* row fail.
NextLive ==
  \/ \E i \in Ids : ~api /\ addTask(i, now)
  \/ Enable(TRUE)
  \/ IntervalFire(TRUE, TRUE)
  \/ RetryFire(TRUE, TRUE)
  \/ \E c \in CycleIds : \E syncToken \in 1..MaxToken :
       PushResponse(c, cycles[c].batch, {}, syncToken, now)
  \/ \E c \in CycleIds : MayFail(MaxTransient) /\ PushFail(c, "network", TRUE)
  \/ \E c \in CycleIds : \E tok \in 0..MaxToken : PullSend(c, tok, TRUE, TRUE)
  \/ \E c \in CycleIds : PullResponse(c, 0)
  \/ \E c \in CycleIds : MayFail(MaxTransient) /\ PullFail(c, "network", TRUE)
  \/ \E c \in CycleIds : PullFinish(c, TRUE)

\* setInterval and setTimeout callbacks run; every request is answered.
FairLive ==
  /\ WF_vars(IntervalFire(TRUE, TRUE))
  /\ WF_vars(RetryFire(TRUE, TRUE))
  /\ \A c \in CycleIds :
       /\ WF_vars(\E syncToken \in 1..MaxToken :
                    PushResponse(c, cycles[c].batch, {}, syncToken, now))
       /\ WF_vars(\E tok \in 0..MaxToken : PullSend(c, tok, TRUE, TRUE))
       /\ WF_vars(PullResponse(c, 0))
       /\ WF_vars(PullFinish(c, TRUE))

SpecLive == Init /\ [][NextLive]_vars /\ FairLive

TypeOK ==
  /\ \A i \in Ids : rows[i] = NoRow \/
       /\ rows[i].syncStatus \in {"synced", "pending", "conflict"}
       /\ rows[i].data \in {"local", "remote", "written"}
       /\ rows[i].deletedAt \in {NoDate} \cup Times
       /\ rows[i].localUpdatedAt \in Times
  /\ cursor \in 0..MaxToken
  /\ retryState \in 0..MAX_RETRIES
  /\ currentSyncPromise \in 0..MaxCycles

\* ================================================================ claims
\* Steps of a cycle, recognised by the position it leaves and enters.
Starts(c)        == cycles[c].pc = "none" /\ cycles'[c].pc # "none"
SendsPull(c)     == cycles[c].pc = "pull0" /\ cycles'[c].pc = "pull"
AppliesChange(c) == cycles[c].pc = "apply" /\ cycles'[c].pc = "apply"
                    /\ cycles'[c].left = cycles[c].left - 1
AnswersPush(c)   == cycles[c].pc = "push" /\ cycles'[c].pc = "pull0"
FailsCycle(c)    == (cycles[c].pc \in {"push", "pull0", "pull"}
                     \/ (cycles[c].pc = "apply" /\ cycles[c].left > 0))
                    /\ cycles'[c].pc = "none" /\ alive'

\* C1: while a cycle started by syncNow() is in flight, no call of syncNow()
\* starts a further cycle: at most one syncNow-started cycle is in flight.
C1_SyncNowDeduplicated ==
  [][ (\E c \in CycleIds : InFlight(c) /\ cycles[c].origin = "syncNow")
      => \A d \in CycleIds : Starts(d) => cycles'[d].origin # "syncNow" ]_vars

\* C2: applying a pull response leaves every row whose status is pending as
\* it was, whether the change for it is an upsert or a delete.
C2_PullKeepsPendingRows ==
  [][ \A c \in CycleIds : AppliesChange(c) =>
        \A i \in Pending(rows) : rows'[i] = rows[i] ]_vars

\* C3: the stored cursor only moves forward: a step that changes it either
\* stores a later token, or removes it in forceFullSync() or in disable().
C3_CursorMonotone ==
  [][ cursor' # cursor =>
        \/ cursor' > cursor
        \/ cursor' = NoToken /\ (ffs'.pc = "deleting" \/ Disable) ]_vars

\* C4: the pull request of the cycle forceFullSync() starts carries no
\* `since`: the cursor is absent when that request is built.
C4_ForcedPullHasNoSince ==
  [][ \A c \in CycleIds :
        (cycles[c].origin = "force" /\ SendsPull(c)) => cursor = NoToken ]_vars

\* C5: attemptCount never exceeds MAX_RETRIES; each failure below the cap
\* raises it by one, and a failure at the cap leaves it at MAX_RETRIES and
\* arms no retry timer.
C5_BackoffBounds ==
  [][ /\ retryState' <= MAX_RETRIES
      /\ retryStored' <= MAX_RETRIES
      /\ \A c \in CycleIds : FailsCycle(c) =>
           IF retryState < MAX_RETRIES
           THEN retryState' = retryState + 1
           ELSE retryState' = MAX_RETRIES /\ (retryTimer' => retryTimer) ]_vars

\* C5 witness: a failure beyond the fifth has been recorded: the count is at
\* the cap and no timer is armed.
C5_SixthFailureRecorded ==
  /\ "Max sync retries exceeded" \in console
  /\ retryState = MAX_RETRIES
  /\ ~retryTimer

\* C6: constructing the engine removes a journal entry left by the previous
\* run, starts no cycle and writes no row; a push sends exactly the rows
\* that are pending when it scans.
C6_CrashRecovery ==
  [][ /\ (~alive /\ alive') =>
           /\ journal' = NoOp
           /\ \A c \in CycleIds : cycles'[c].pc = "none"
           /\ currentSyncPromise' = 0
           /\ rows' = rows
      /\ \A c \in CycleIds : (Starts(c) /\ cycles'[c].pc = "push") =>
           cycles'[c].batch = Pending(rows) ]_vars

\* C6 witness: the engine was constructed over a stale journal entry while
\* the rows it named are still pending.
C6_StaleEntryRecovered ==
  /\ alive
  /\ "Found orphaned sync operation" \in console
  /\ journal = NoOp
  /\ Pending(rows) # {}
  /\ \A c \in CycleIds : ~InFlight(c)

\* C7 as stated: every row of the batch listed in `applied` becomes synced,
\* rows of the batch in neither list stay pending, and an id of `applied`
\* outside the batch changes no row.
C7_AppliedBecomesSynced ==
  [][ \A c \in CycleIds : AnswersPush(c) =>
      \A applied \in SUBSET Ids : \A conflicts \in SUBSET Ids :
        PushResponse(c, applied, conflicts, srvToken', now') =>
          \A i \in Ids : rows[i] # NoRow =>
            /\ (i \in cycles[c].batch /\ i \in applied)
                 => rows'[i].syncStatus = "synced"
            /\ (i \in cycles[c].batch /\ i \notin applied /\ i \notin conflicts)
                 => rows'[i] = rows[i] /\ rows'[i].syncStatus = "pending"
            /\ (i \notin cycles[c].batch /\ i \in applied)
                 => rows'[i] = rows[i] ]_vars

\* C7 amended: a row of the batch listed in `applied` and not in `conflicts`
\* becomes synced; one listed in both ends as conflict; rows of the batch in
\* neither list stay pending; an id of `applied` outside the batch changes a
\* row only when `conflicts` lists it too.
C7_AppliedNotConflictingBecomesSynced ==
  [][ \A c \in CycleIds : AnswersPush(c) =>
      \A applied \in SUBSET Ids : \A conflicts \in SUBSET Ids :
        PushResponse(c, applied, conflicts, srvToken', now') =>
          \A i \in Ids : rows[i] # NoRow =>
            /\ (i \in cycles[c].batch /\ i \in applied /\ i \notin conflicts)
                 => rows'[i].syncStatus = "synced"
            /\ (i \in applied /\ i \in conflicts)
                 => rows'[i].syncStatus = "conflict"
            /\ (i \in cycles[c].batch /\ i \notin applied /\ i \notin conflicts)
                 => rows'[i] = rows[i] /\ rows'[i].syncStatus = "pending"
            /\ (i \notin cycles[c].batch /\ i \in applied /\ i \notin conflicts)
                 => rows'[i] = rows[i] ]_vars

\* C7 witness: a push response has been processed that left one row synced
\* and another row pending.
C7_PushProcessed ==
  \E c \in CycleIds :
    /\ cycles[c].pc = "pull0"
    /\ cycles[c].pushed = 1
    /\ \E i \in Ids : rows[i] # NoRow /\ rows[i].syncStatus = "synced"
                      /\ rows[i].data = "local"
    /\ \E i \in Ids : rows[i] # NoRow /\ rows[i].syncStatus = "pending"

\* C8: a row listed in `conflicts` gets the status conflict and no other
\* field of it changes in the push step.
C8_ConflictChangesStatusOnly ==
  [][ \A c \in CycleIds : AnswersPush(c) =>
      \A applied \in SUBSET Ids : \A conflicts \in SUBSET Ids :
        PushResponse(c, applied, conflicts, srvToken', now') =>
          \A i \in conflicts : rows[i] # NoRow =>
            rows'[i] = [rows[i] EXCEPT !.syncStatus = "conflict"] ]_vars

\* C9: an upsert for an id whose local row is pending is not applied: no row
\* changes and the change is not counted in `pulled`.
C9_PendingUpsertSkipped ==
  [][ \A c \in CycleIds : AppliesChange(c) => \A ch \in RemoteChanges :
        ( /\ PullApply(c, ch, now')
          /\ ch.operation = "upsert"
          /\ ch.id \in Pending(rows) )
        => rows' = rows /\ cycles'[c].pulled = cycles[c].pulled ]_vars

\* C9 witness: the only change of a pull response was an upsert, it was not
\* counted, and its row is pending with its local data.
C9_UpsertWasSkipped ==
  \E c \in CycleIds :
    /\ cycles[c].pc = "apply"
    /\ cycles[c].last.operation = "upsert"
    /\ cycles[c].pulled = 0
    /\ rows[cycles[c].last.id] # NoRow
    /\ rows[cycles[c].last.id].syncStatus = "pending"
    /\ rows[cycles[c].last.id].data = "local"

\* C10: the push step (scan, request, response or failure) leaves the
\* stored cursor as it was.
C10_PushKeepsCursor ==
  [][ \A c \in CycleIds :
        (Starts(c) \/ (cycles[c].pc = "push" /\ cycles'[c].pc # "push" /\ alive'))
        => cursor' = cursor ]_vars

\* C10 witness: a push response carrying a token was processed and the
\* cursor holds another value.
C10_PushedWithOtherToken ==
  \E c \in CycleIds :
    /\ cycles[c].pc = "pull0"
    /\ cycles[c].pushed > 0
    /\ cursor # srvToken

\* A call of syncNow() by any of its triggers, with the network as given.
SyncNowStep(online) ==
  \E hasToken \in BOOLEAN :
    \/ SyncNowCall(hasToken, online)
    \/ IntervalFire(hasToken, online)
    \/ RetryFire(hasToken, online)
    \/ Enable(online)

\* C11: syncNow() on an initialised engine with nothing in flight and the
\* network offline sets status offline, starts no cycle (no request), changes
\* no row, no cursor and no journal entry, and records no failure.
C11_OfflineSyncNow ==
  [][ (SyncNowStep(FALSE) /\ api' /\ currentSyncPromise = 0
         /\ \A c \in CycleIds : ~InFlight(c))
      => /\ status' = "offline"
         /\ cycles' = cycles
         /\ currentSyncPromise' = 0
         /\ rows' = rows
         /\ cursor' = cursor
         /\ journal' = journal
         /\ settled' = settled
         /\ retryState' <= retryState
         /\ retryStored' <= retryStored ]_vars

\* C11 witness: sync was enabled while offline: status is offline, a row is
\* pending, and no request was ever sent nor a failure recorded.
C11_WentOffline ==
  /\ api
  /\ status = "offline"
  /\ Pending(rows) # {}
  /\ journal = NoOp
  /\ settled = NoOutcome
  /\ retryStored = 0
  /\ \A c \in CycleIds : ~InFlight(c)

\* A call of syncNow() whose push request fails before it is sent: there are
\* pending rows and getToken() returns nothing.
FailsAtStart ==
  /\ api
  /\ currentSyncPromise = 0
  /\ Pending(rows) # {}
  /\ \/ SyncNowCall(FALSE, TRUE)
     \/ IntervalFire(FALSE, TRUE)
     \/ RetryFire(FALSE, TRUE)

\* C12: a cycle whose push or pull request fails records one failure with
\* the retry queue, ends with status error or offline, and its promise
\* rejects without a sync-complete event.
C12_FailurePropagates ==
  [][ (FailsAtStart \/ \E c \in CycleIds : FailsCycle(c))
      => /\ IF retryState < MAX_RETRIES
            THEN retryState' = retryState + 1 /\ retryStored' = retryState + 1
            ELSE retryState' = retryState /\ retryStored' = retryStored
         /\ status' \in {"error", "offline"}
         /\ settled'.promise = "rejected"
         /\ settled'.event # "syncComplete" ]_vars

\* C12 witness: a cycle has failed: one failure is on record, a retry is
\* armed, the status is error and the promise rejected.
C12_CycleFailed ==
  /\ settled.promise = "rejected"
  /\ status = "error"
  /\ retryState = 1
  /\ retryTimer
  /\ \A c \in CycleIds : ~InFlight(c)

\* A cycle fails with an authentication error: no token, or a 401 response.
AuthFailure ==
  \/ FailsAtStart
  \/ \E c \in CycleIds : \E online \in BOOLEAN :
       \/ PushFail(c, "expired", online)
       \/ PullFail(c, "expired", online)
       \/ PullSend(c, NoToken, FALSE, online)

\* A cycle fails with another error.
OtherFailure ==
  \E c \in CycleIds : \E online \in BOOLEAN :
    PushFail(c, "network", online) \/ PullFail(c, "network", online)

\* C13: an authentication failure emits the auth-error event, sets status
\* error and is kept out of the backoff: the retry state is not incremented
\* and no retry timer is armed; any other failure emits no auth-error event.
C13_AuthFailureIsNotRetried ==
  [][ /\ AuthFailure =>
           /\ settled'.event = "authError"
           /\ status' = "error"
           /\ retryState' = retryState
           /\ retryStored' = retryStored
           /\ (retryTimer' => retryTimer)
      /\ OtherFailure => settled'.event # "authError" ]_vars

\* C14: within a cycle the pull request is sent only after the push step has
\* completed: the scan found nothing to push, or the push response was
\* applied and the journal entry removed; a cycle whose push fails ends
\* there, sends no pull request and leaves the cursor as it was.
C14_PushBeforePull ==
  [][ \A c \in CycleIds :
        /\ Starts(c) =>
             \/ cycles'[c].pc = "push" /\ cycles'[c].batch = Pending(rows)
                  /\ cycles'[c].batch # {}
             \/ cycles'[c].pc = "pull0" /\ Pending(rows) = {}
        /\ (cycles[c].pc = "push" /\ cycles'[c].pc # "push" /\ alive') =>
             \/ AnswersPush(c) /\ journal' = NoOp /\ cursor' = cursor
                  /\ \E applied \in SUBSET Ids : \E conflicts \in SUBSET Ids :
                       rows' = ApplyPushResponse(rows, cycles[c].batch, applied,
                                                 conflicts, now')
             \/ cycles'[c].pc = "none" /\ cursor' = cursor /\ rows' = rows
                  /\ srvToken' = srvToken
        /\ SendsPull(c) => cycles[c].batch = {}
        /\ (cycles[c].pc # "pull" /\ cycles'[c].pc = "pull") => SendsPull(c) ]_vars

\* C14 witness: the pull request of a cycle is in flight after its push was
\* answered and applied.
C14_PullAfterPush ==
  \E c \in CycleIds :
    /\ cycles[c].pc = "pull"
    /\ cycles[c].pushed > 0
    /\ journal = NoOp
    /\ \E i \in Ids : rows[i] # NoRow /\ rows[i].syncStatus = "synced"

\* A timer callback (the periodic timer or the retry timer) calls syncNow().
ScheduledTrigger ==
  \E hasToken \in BOOLEAN : \E online \in BOOLEAN :
    IntervalFire(hasToken, online) \/ RetryFire(hasToken, online)

\* C15: stop() leaves the cycle in flight alone, and while the engine is
\* stopped no timer callback starts a cycle.
C15_StopPreventsScheduledSyncs ==
  [][ /\ Stop => cycles' = cycles /\ currentSyncPromise' = currentSyncPromise
      /\ (ScheduledTrigger /\ \E c \in CycleIds : Starts(c)) => syncInterval ]_vars

\* A task operation on row i: addTask, toggleTask/updateTask, or deleteTask
\* of an existing task.
TaskOperation(i) ==
  \E t \in Times :
    addTask(i, t) \/ updateTask(i, t) \/ (rows[i] # NoRow /\ deleteTask(i, t))

\* The write carries no status, or a status other than synced.
NotMarkedSynced(mods) ==
  "syncStatus" \notin DOMAIN mods \/ mods.syncStatus # "synced"

\* C16 as stated: every write that does not set the status synced leaves the
\* row pending with _localUpdatedAt refreshed, whatever the row's status was
\* and whatever status the write carries; so does every task operation.
C16_EveryWriteMarksPending ==
  [][ \A i \in Ids :
        /\ \A mods \in Modifications : \A t \in Times :
             (NotMarkedSynced(mods) /\ tableUpdate(i, mods, t))
             => rows'[i].syncStatus = "pending" /\ rows'[i].localUpdatedAt = t
        /\ TaskOperation(i)
             => rows'[i].syncStatus = "pending" /\ rows'[i].localUpdatedAt = now'
    ]_vars

\* C16 amended: a write that carries no status leaves the row pending; one
\* that carries a status other than synced leaves the row with that status
\* (pending or conflict); both refresh _localUpdatedAt, whatever the row's
\* status was.  Every task operation leaves its task pending.
C16_WriteKeepsStatusGiven ==
  [][ \A i \in Ids :
        /\ \A mods \in Modifications : \A t \in Times :
             (NotMarkedSynced(mods) /\ tableUpdate(i, mods, t))
             => /\ rows'[i].localUpdatedAt = t
                /\ rows'[i].syncStatus =
                     IF "syncStatus" \in DOMAIN mods THEN mods.syncStatus
                     ELSE "pending"
        /\ TaskOperation(i)
             => rows'[i].syncStatus = "pending" /\ rows'[i].localUpdatedAt = now'
    ]_vars

\* C16 witness: a write that carried the status conflict has left its row in
\* conflict with _localUpdatedAt refreshed.
C16_ConflictWritten ==
  \E i \in Ids :
    /\ rows[i] # NoRow
    /\ rows[i].syncStatus = "conflict"
    /\ rows[i].localUpdatedAt = now
    /\ now > 1

\* Cycle c completes successfully: its last pulled change has been applied.
CompletesCycle(c) ==
  cycles[c].pc = "apply" /\ cycles[c].left = 0 /\ cycles'[c].pc = "none" /\ alive'

\* C17: when a cycle completes successfully the retry state is cleared in
\* memory and in storage and the retry timer is cancelled; afterwards a retry
\* timer is armed again only by a step that records a new failure (or by a
\* restart that finds a failure stored), so none fires in between.
C17_SuccessClearsRetry ==
  [][ /\ (\E c \in CycleIds : CompletesCycle(c))
         => /\ retryState' = 0 /\ retryNext' = 0
            /\ retryStored' = 0 /\ retryStoredNext' = 0
            /\ ~retryTimer' /\ retryDelay' = 0
      /\ (~retryTimer /\ retryTimer')
         => /\ retryStored' >= 1
            /\ retryStored' = retryStored + 1 \/ (~alive /\ retryStored >= 1)
    ]_vars

\* C17 witness: a cycle has completed successfully after the retries of this
\* page load had been exhausted, and nothing is left of the retry state.
C17_ClearedAfterFailures ==
  /\ settled.promise = "resolved"
  /\ status = "idle"
  /\ "Max sync retries exceeded" \in console
  /\ retryState = 0 /\ retryStored = 0 /\ ~retryTimer

\* The page loads: the engine and its RetryQueue are constructed.
Constructs == ~alive /\ alive'

\* C18: constructing the RetryQueue over a persisted state with attemptCount
\* below MAX_RETRIES restores attemptCount and nextAttempt unchanged and arms
\* the retry timer for max(0, nextAttempt - now), the remaining backoff; and
\* while the page is loaded the persisted state equals the state in memory.
C18_RestoredWithRemainingBackoff ==
  /\ [](alive => retryStored = retryState /\ retryStoredNext = retryNext)
  /\ [][ (Constructs /\ retryStored >= 1 /\ retryStored < MAX_RETRIES)
         => /\ retryState' = retryStored /\ retryNext' = retryStoredNext
            /\ retryStored' = retryStored /\ retryStoredNext' = retryStoredNext
            /\ retryTimer'
            /\ retryDelay' = Max(0, retryStoredNext - DateNow(now')) ]_vars

\* C18 witness: after a restart the timer is armed for what is left of the
\* third backoff step, less than the step itself.
C18_RemainingBackoffArmed ==
  /\ alive
  /\ retryState = 3 /\ retryStored = 3
  /\ retryTimer
  /\ retryDelay > 0 /\ retryDelay < BACKOFF_MS[3]
  /\ retryDelay = retryNext - DateNow(now)

\* Row i is stored, soft-deleted and waiting to be pushed.
DeletedPending(i) ==
  rows[i] # NoRow /\ rows[i].deletedAt # NoDate /\ rows[i].syncStatus = "pending"

\* What deleteTask and a pulled delete do to stored rows, and what a push
\* started over soft-deleted rows sends.
SoftDelete ==
  /\ \A i \in Ids : \A t \in Times :
       (rows[i] # NoRow /\ deleteTask(i, t))
       => /\ rows'[i] # NoRow
          /\ rows'[i].deletedAt = t
          /\ rows'[i].syncStatus = "pending"
  /\ \A c \in CycleIds :
       (AppliesChange(c) /\ cycles'[c].last.operation = "delete"
          /\ rows[cycles'[c].last.id] # NoRow)
       => /\ rows'[cycles'[c].last.id] # NoRow
          /\ rows'[cycles'[c].last.id].deletedAt # NoDate
  /\ \A c \in CycleIds :
       (Starts(c) /\ cycles'[c].pc = "push")
       => \A i \in Ids : DeletedPending(i) => i \in cycles'[c].deletes

C20_AtMostOneCycleInFlight ==
  /\ [](Cardinality({c \in CycleIds : InFlight(c)}) <= 1)
  /\ [][ (alive' /\ currentSyncPromise # 0
            /\ currentSyncPromise' # currentSyncPromise)
         => cycles'[currentSyncPromise].pc = "none" ]_vars

\* A step that records a failure: a cycle fails, or syncNow() fails before
\* its first request.
RecordsFailure == FailsAtStart \/ \E c \in CycleIds : FailsCycle(c)

\* C21: the k-th consecutive recorded failure (1 <= k <= MAX_RETRIES) sets
\* nextAttempt to now plus the k-th delay of the schedule and leaves a retry
\* timer armed that fires at that nextAttempt, also when an earlier timer was
\* still armed.
C21_EveryFailureArmsItsBackoff ==
  [][ (RecordsFailure /\ retryState < MAX_RETRIES)
      => /\ retryNext' = DateNow(now') + BACKOFF_MS[retryState + 1]
         /\ retryTimer'
         /\ retryDelay' = retryNext' - DateNow(now') ]_vars

\* The journal holds the entry of the push of cycle c.
JournalOf(c) == journal = OperationLogStart("push", cycles[c].batch)

\* C22: while the push request of a cycle is in flight the journal holds an
\* entry listing the ids of its batch; while the engine runs the entry goes
\* only in the step that has written the response of that push to the store;
\* a cycle that finds no pending row writes no entry and sends no push request.
C22_PushIsJournaled ==
  /\ [](\A c \in CycleIds : cycles[c].pc = "push" => JournalOf(c))
  /\ [][ /\ (alive /\ alive' /\ journal # NoOp /\ journal'.type # "push")
            => \E c \in CycleIds : AnswersPush(c) /\ JournalOf(c)
         /\ \A c \in CycleIds :
              (Starts(c) /\ Pending(rows) = {})
              => journal' = journal /\ cycles'[c].pc = "pull0" ]_vars

\* C23: in a running engine a journal entry is persisted only while a sync
\* operation is in flight, and the pull of a cycle, like its push, is
\* journaled before its request is sent.
C23_JournalOnlyWhileInFlight ==
  /\ []((alive /\ \A c \in CycleIds : ~InFlight(c)) => journal = NoOp)
  /\ [][ \A c \in CycleIds : SendsPull(c) => journal'.type = "pull" ]_vars

\* C24: a pending row has _localUpdatedAt at or after the updatedAt of the
\* last remote change a pull applied to it, whatever timestamps the server
\* supplies.  Stated for the change a pull in progress has applied last.
C24_PendingNotOlderThanRemote ==
  \A c \in CycleIds :
    (/\ cycles[c].pc = "apply"
     /\ cycles[c].last.operation = "upsert"
     /\ cycles[c].last.applied
     /\ rows[cycles[c].last.id] # NoRow
     /\ rows[cycles[c].last.id].syncStatus = "pending")
    => rows[cycles[c].last.id].localUpdatedAt >= cycles[c].last.updatedAt

\* A step of the pull of cycle c, from its request to its last applied
\* change, in a running engine.
PullStep(c) ==
  cycles[c].pc \in {"pull0", "pull", "apply"} /\ cycles'[c] # cycles[c] /\ alive'

\* C25: the pull writes the cursor only in the step that follows the last
\* applied change, and then only if the response carried a syncToken; every
\* other step of the pull, a failure part-way through applying included,
\* leaves the cursor as it was.
C25_CursorWrittenAfterAllChanges ==
  [][ \A c \in CycleIds :
        PullStep(c)
        => cursor' = IF CompletesCycle(c) /\ cycles[c].tok # NoToken
                     THEN cycles[c].tok
                     ELSE cursor ]_vars

\* C25 witness: a pull whose response carried a new syncToken failed while
\* applying its changes, and the cursor still differs from that token.
C25_FailedPartWay ==
  /\ settled.promise = "rejected"
  /\ settled.error = "storage"
  /\ srvToken # NoToken
  /\ cursor # srvToken
  /\ \A c \in CycleIds : ~InFlight(c)

\* The push request of cycle c fails.
FailsPush(c) == cycles[c].pc = "push" /\ FailsCycle(c)

\* C26: a failed push changes no row; every row of its batch is still
\* pending when it fails, and the scan of the next push takes every pending
\* row, those rows included.
C26_FailedPushLeavesBatchPending ==
  [][ \A c \in CycleIds :
        /\ FailsPush(c)
           => /\ rows' = rows
              /\ \A i \in cycles[c].batch :
                   rows'[i] # NoRow /\ rows'[i].syncStatus = "pending"
        /\ (Starts(c) /\ cycles'[c].pc = "push")
           => cycles'[c].batch = Pending(rows) ]_vars

\* Row i of the batch of cycle c was written locally after the batch was
\* read: its _localUpdatedAt is no longer the one that was sent.
ModifiedSinceSent(c, i) ==
  i \in cycles[c].batch /\ rows[i] # NoRow
  /\ rows[i].localUpdatedAt # cycles[c].sent[i]

\* C27: a row written locally after it was read into a push batch and
\* before the response of that push is processed is still pending after the
\* response is processed.
C27_EditDuringPushStaysPending ==
  [][ \A c \in CycleIds : AnswersPush(c) =>
        \A i \in Ids :
          ModifiedSinceSent(c, i) => rows'[i].syncStatus = "pending" ]_vars

\* C28: in a running engine the retry state, in memory and persisted, is
\* cleared only by a step that completes a cycle successfully; a retry-timer
\* firing whose syncNow() ends without a cycle leaves it unchanged.
C28_ClearedOnlyBySuccess ==
  [][ (alive /\ alive' /\ retryStored >= 1
         /\ (retryStored' # retryStored \/ retryState' # retryState))
      => \/ \E c \in CycleIds : CompletesCycle(c)
         \/ RecordsFailure ]_vars

\* C29: in a running engine the status is syncing exactly while a cycle is
\* in flight.
C29_SyncingIffInFlight ==
  alive => ((\E c \in CycleIds : InFlight(c)) <=> status = "syncing")

\* Every stored row is synced, the engine is idle and nothing is left of the
\* retry state.
AllSynced ==
  /\ \A i \in Ids : rows[i] # NoRow => rows[i].syncStatus = "synced"
  /\ status = "idle"
  /\ retryState = 0 /\ retryStored = 0 /\ ~retryTimer

\* C30: once the engine is started, with the network online, a valid token,
\* a server that answers and applies every pushed id, fair timers and no
\* further local edits, every pending row is eventually synced and the
\* engine eventually idle with empty retry state, also after up to four
\* failed attempts.
C30_EventuallySynced == (api /\ syncInterval) ~> AllSynced

\* C30 witness: four attempts in a row have failed and a row is still
\* pending.
C30_FourAttemptsFailed ==
  /\ api /\ syncInterval
  /\ retryState = MaxTransient /\ retryTimer
  /\ status = "error"
  /\ Pending(rows) # {}
  /\ \A c \in CycleIds : ~InFlight(c)

====
